---- MODULE Spec2Model ----
(***************************************************************************)
(* Model of src/src/lib/tax-calculator.ts: the Israeli net-salary          *)
(* calculator (calculateIncomeTax, calculateCreditPoints,                  *)
(* calculateNationalInsuranceAndHealth, calculateContributions,            *)
(* calculateSalary) over the shared tables TAX_SETTINGS_2025 and           *)
(* STANDARD_CONTRIBUTIONS_2025.                                            *)
(*                                                                         *)
(* JavaScript numbers are modelled as exact rationals <<n, d>> in lowest   *)
(* terms with d > 0 (IEEE-754 rounding is abstracted away); `undefined`    *)
(* and `null` are the empty tuple <<>>.                                    *)
(***************************************************************************)
EXTENDS Integers, Sequences, FiniteSets, TLC

\* TAX_SETTINGS_2025, STANDARD_CONTRIBUTIONS_2025: the exported tables (lines 48-80
\*   and 33-45), module-level objects every function reads.
\* pc: "idle" before a call, "returned" after it; fn: the function called;
\* args: its arguments as they are after the call; ret: the value returned.
\* history: the calculateSalary calls made so far (only SpecSeq records them).
VARIABLES TAX_SETTINGS_2025, STANDARD_CONTRIBUTIONS_2025, pc, fn, args, ret, history

vars == <<TAX_SETTINGS_2025, STANDARD_CONTRIBUTIONS_2025, pc, fn, args, ret, history>>

(***************************************************************************)
(* JavaScript number arithmetic, as exact rationals.                       *)
(***************************************************************************)
Abs(x) == IF x < 0 THEN -x ELSE x

RECURSIVE GCD(_, _)
GCD(a, b) == IF b = 0 THEN a ELSE GCD(b, a % b)

LCM(a, b) == (a \div GCD(a, b)) * b

\* The number n/d (d # 0) in lowest terms with a positive denominator.
Rat(n, d) ==
    LET g == GCD(Abs(n), Abs(d))
        s == IF d < 0 THEN -1 ELSE 1
    IN  <<(s * n) \div g, Abs(d) \div g>>

Num(n) == <<n, 1>>

Zero == <<0, 1>>

undefined == <<>>

Infinity == <<1, 0>>

\* a + b
RAdd(a, b) ==
    LET l == LCM(a[2], b[2])
    IN  Rat(a[1] * (l \div a[2]) + b[1] * (l \div b[2]), l)

\* a - b
RSub(a, b) ==
    LET l == LCM(a[2], b[2])
    IN  Rat(a[1] * (l \div a[2]) - b[1] * (l \div b[2]), l)

\* a * b (cross-reduced before multiplying)
RMul(a, b) ==
    LET g1 == GCD(Abs(a[1]), b[2])
        g2 == GCD(Abs(b[1]), a[2])
    IN  Rat((a[1] \div g1) * (b[1] \div g2), (a[2] \div g2) * (b[2] \div g1))

\* a / k for a non-zero integer literal k
RDiv(a, k) == RMul(a, Rat(1, k))

\* a <= b, a < b, a > b
RLeq(a, b) == RSub(b, a)[1] >= 0

RLt(a, b) == RSub(b, a)[1] > 0

RGt(a, b) == RLt(b, a)

\* Math.min and Math.max on finite numbers
RMin(a, b) == IF RLeq(a, b) THEN a ELSE b

RMax(a, b) == IF RLeq(a, b) THEN b ELSE a

\* JavaScript truthiness of an optional number: undefined, null and 0 are falsy.
Truthy(v) == v # undefined /\ v # Zero

\* v || dflt
OrElse(v, dflt) == IF Truthy(v) THEN v ELSE dflt

(***************************************************************************)
(* The shared tables.                                                      *)
(***************************************************************************)
InitialStandardContributions ==
    [ pension    |-> [ employee_rate |-> Rat(7, 100),
                       employer_rate |-> Rat(833, 10000),
                       base_salary_only |-> FALSE ],
      study_fund |-> [ employee_rate |-> Rat(25, 1000),
                       employer_rate |-> Rat(75, 1000),
                       base_salary_only |-> TRUE ] ]

InitialTaxSettings ==
    [ tax_brackets_annual |->
        << [ min |-> Num(0),      max |-> Num(84120),  rate |-> Rat(10, 100) ],
           [ min |-> Num(84120),  max |-> Num(120720), rate |-> Rat(14, 100) ],
           [ min |-> Num(120720), max |-> Num(193800), rate |-> Rat(20, 100) ],
           [ min |-> Num(193800), max |-> Num(269280), rate |-> Rat(31, 100) ],
           [ min |-> Num(269280), max |-> Num(560280), rate |-> Rat(35, 100) ],
           [ min |-> Num(560280), max |-> Num(721560), rate |-> Rat(47, 100) ],
           [ min |-> Num(721560), max |-> undefined,   rate |-> Rat(50, 100) ] >>,
      credit_points |->
        [ value_monthly      |-> Num(242),
          resident_male      |-> Rat(225, 100),
          resident_female    |-> Rat(275, 100),
          child_0_5          |-> Rat(15, 10),
          child_6_12         |-> Num(1),
          child_13_17        |-> Num(1),
          child_18_plus      |-> Rat(5, 10),
          single_parent      |-> Rat(15, 10),
          new_immigrant      |-> Num(1),
          returning_resident |-> Num(1) ],
      national_insurance |->
        [ threshold_monthly  |-> Num(7522),
          max_monthly        |-> Num(50695),
          rate_low_employee  |-> Rat(104, 10000),
          rate_high_employee |-> Rat(7, 100),
          rate_low_health    |-> Rat(323, 10000),
          rate_high_health   |-> Rat(517, 10000) ] ]

(***************************************************************************)
(* calculateIncomeTax                                                      *)
(***************************************************************************)
\* bracket.max || Infinity
bracketMax(bracket) == IF Truthy(bracket.max) THEN bracket.max ELSE Infinity

\* The span measured from zero: Math.min(remainingIncome, bracketMax).
taxableInBracketFromZero(remainingIncome, bracket) ==
    IF bracketMax(bracket) = Infinity
    THEN remainingIncome
    ELSE RMin(remainingIncome, bracketMax(bracket))

\* Math.min(remainingIncome, bracketMax - bracketMin)
taxableInBracket(remainingIncome, bracket) ==
    IF bracketMax(bracket) = Infinity
    THEN remainingIncome
    ELSE RMin(remainingIncome, RSub(bracketMax(bracket), bracket.min))

\* taxableInBracket * bracket.rate
taxInBracket(taxable, bracket) == RMul(taxable, bracket.rate)

\* An assignment in place of the accumulation: totalTax = taxInBracket.
accumulateTaxOverwrite(totalTax, tax) == tax

\* totalTax += taxInBracket
accumulateTax(totalTax, tax) == RAdd(totalTax, tax)

\* The decrement forgotten: remainingIncome is left as it was.
remainingAfterUnchanged(remainingIncome, taxable) == remainingIncome

\* remainingIncome -= taxableInBracket
remainingAfter(remainingIncome, taxable) == RSub(remainingIncome, taxable)

\* The for loop over the brackets from index i on.
RECURSIVE incomeTaxLoop(_, _, _, _)
incomeTaxLoop(i, remainingIncome, totalTax, breakdown) ==
    IF i > Len(TAX_SETTINGS_2025.tax_brackets_annual) \/ RLeq(remainingIncome, Zero)
    THEN [ tax |-> totalTax, breakdown |-> breakdown ]
    ELSE LET bracket == TAX_SETTINGS_2025.tax_brackets_annual[i]
             taxable == taxableInBracket(remainingIncome, bracket)
         IN  IF RGt(taxable, Zero)
             THEN incomeTaxLoop(i + 1,
                                remainingAfter(remainingIncome, taxable),
                                accumulateTax(totalTax, taxInBracket(taxable, bracket)),
                                Append(breakdown,
                                       [ bracket        |-> bracket,
                                         amount         |-> taxInBracket(taxable, bracket),
                                         effective_rate |-> bracket.rate,
                                         taxable_amount |-> taxable ]))
             ELSE incomeTaxLoop(i + 1, remainingIncome, totalTax, breakdown)

calculateIncomeTax(grossAnnual) == incomeTaxLoop(1, grossAnnual, Zero, <<>>)

(***************************************************************************)
(* calculateCreditPoints                                                   *)
(***************************************************************************)
\* The if / else-if chain of the children loop with a strict first comparison.
childPointsStrict(child) ==
    LET settings == TAX_SETTINGS_2025.credit_points
    IN  IF RLt(child.age, Num(5)) THEN settings.child_0_5
        ELSE IF RLeq(child.age, Num(12)) THEN settings.child_6_12
        ELSE IF RLeq(child.age, Num(17)) THEN settings.child_13_17
        ELSE settings.child_18_plus

\* The if / else-if chain of the children loop: the points one child adds.
childPoints(child) ==
    LET settings == TAX_SETTINGS_2025.credit_points
    IN  IF RLeq(child.age, Num(5)) THEN settings.child_0_5
        ELSE IF RLeq(child.age, Num(12)) THEN settings.child_6_12
        ELSE IF RLeq(child.age, Num(17)) THEN settings.child_13_17
        ELSE settings.child_18_plus

\* for (const child of input.children), from index i on, accumulating into points.
RECURSIVE childrenLoop(_, _, _)
childrenLoop(children, i, points) ==
    IF i > Len(children)
    THEN points
    ELSE childrenLoop(children, i + 1, RAdd(points, childPoints(children[i])))

calculateCreditPoints(input) ==
    LET settings == TAX_SETTINGS_2025.credit_points
        p0 == Zero
        p1 == IF input.is_resident
              THEN RAdd(p0, IF input.gender = "male"
                            THEN settings.resident_male
                            ELSE settings.resident_female)
              ELSE p0
        p2 == childrenLoop(input.children, 1, p1)
        p3 == IF input.single_parent THEN RAdd(p2, settings.single_parent) ELSE p2
        p4 == IF input.new_immigrant THEN RAdd(p3, settings.new_immigrant) ELSE p3
        p5 == IF input.returning_resident THEN RAdd(p4, settings.returning_resident) ELSE p4
    IN  p5

(***************************************************************************)
(* calculateNationalInsuranceAndHealth                                     *)
(***************************************************************************)
\* The gross left uncapped: cappedGross = grossMonthly.
cappedGrossUncapped(grossMonthly) == grossMonthly

\* Math.min(grossMonthly, settings.max_monthly)
cappedGross(grossMonthly) ==
    RMin(grossMonthly, TAX_SETTINGS_2025.national_insurance.max_monthly)

calculateNationalInsuranceAndHealth(grossMonthly, isResident) ==
    LET settings == TAX_SETTINGS_2025.national_insurance
        capped   == cappedGross(grossMonthly)
        lowPart  == RMin(capped, settings.threshold_monthly)
        highPart == RMax(Zero, RSub(capped, settings.threshold_monthly))
        ni1 == IF RGt(lowPart, Zero)
               THEN RAdd(Zero, RMul(lowPart, settings.rate_low_employee))
               ELSE Zero
        ht1 == IF RGt(lowPart, Zero) /\ isResident
               THEN RAdd(Zero, RMul(lowPart, settings.rate_low_health))
               ELSE Zero
        ni2 == IF RGt(highPart, Zero)
               THEN RAdd(ni1, RMul(highPart, settings.rate_high_employee))
               ELSE ni1
        ht2 == IF RGt(highPart, Zero) /\ isResident
               THEN RAdd(ht1, RMul(highPart, settings.rate_high_health))
               ELSE ht1
    IN  [ national_insurance |-> ni2,
          health_tax |-> ht2,
          breakdown |->
            [ ni_breakdown |->
                [ low_part  |-> RMul(lowPart, settings.rate_low_employee),
                  high_part |-> RMul(highPart, settings.rate_high_employee) ],
              health_breakdown |->
                [ low_part  |-> IF isResident
                                THEN RMul(lowPart, settings.rate_low_health)
                                ELSE Zero,
                  high_part |-> IF isResident
                                THEN RMul(highPart, settings.rate_high_health)
                                ELSE Zero ] ] ]

(***************************************************************************)
(* calculateContributions                                                  *)
(***************************************************************************)
\* The standard pair winning over a supplied custom pair when the flag is set.
resolveSettingsStandardFirst(useStandard, custom, standard) ==
    IF useStandard THEN standard
    ELSE IF custom # undefined THEN custom
    ELSE undefined

\* The use flag forgotten: only a supplied custom pair activates the contribution.
resolveSettingsCustomOnly(useStandard, custom, standard) ==
    IF custom # undefined THEN custom ELSE undefined

\* if (use || custom) { settings = custom || standard }: the rate pair in force,
\* undefined when the contribution is inactive.
resolveSettings(useStandard, custom, standard) ==
    IF useStandard \/ custom # undefined
    THEN (IF custom # undefined THEN custom ELSE standard)
    ELSE undefined

\* settings.base_salary_only ? input.gross_monthly : grossMonthly
contributionBase(settings, grossMonthly, input) ==
    IF settings.base_salary_only THEN input.gross_monthly ELSE grossMonthly

calculateContributions(grossMonthly, input) ==
    LET pensionSettings   == resolveSettings(input.use_standard_pension,
                                             input.custom_pension,
                                             STANDARD_CONTRIBUTIONS_2025.pension)
        studyFundSettings == resolveSettings(input.use_study_fund,
                                             input.custom_study_fund,
                                             STANDARD_CONTRIBUTIONS_2025.study_fund)
        pensionBase   == contributionBase(pensionSettings, grossMonthly, input)
        studyFundBase == contributionBase(studyFundSettings, grossMonthly, input)
    IN  [ pension_employee |->
            IF pensionSettings = undefined THEN Zero
            ELSE RMul(pensionBase, pensionSettings.employee_rate),
          pension_employer |->
            IF pensionSettings = undefined THEN Zero
            ELSE RMul(pensionBase, pensionSettings.employer_rate),
          study_fund_employee |->
            IF studyFundSettings = undefined THEN Zero
            ELSE RMul(studyFundBase, studyFundSettings.employee_rate),
          study_fund_employer |->
            IF studyFundSettings = undefined THEN Zero
            ELSE RMul(studyFundBase, studyFundSettings.employer_rate) ]

(***************************************************************************)
(* calculateSalary                                                         *)
(***************************************************************************)
\* input.gross_monthly + (input.bonus_current_month || 0)
grossWithBonus(input) ==
    RAdd(input.gross_monthly, OrElse(input.bonus_current_month, Zero))

\* The taxable income with the pension deduction left out.
taxableMonthlyIgnoringPension(grossMonthly, pensionEmployee) == grossMonthly

\* grossMonthly - contributions.pension_employee
taxableMonthlyOf(grossMonthly, pensionEmployee) == RSub(grossMonthly, pensionEmployee)

\* The annualization scaled by the months worked:
\* taxableMonthly * input.months_worked_in_year.
taxableAnnualByMonthsWorked(taxableMonthly, input) ==
    RMul(taxableMonthly, input.months_worked_in_year)

\* taxableMonthly * 12 (the input's months_worked_in_year is not read)
taxableAnnualOf(taxableMonthly, input) == RMul(taxableMonthly, Num(12))

\* The credit subtracted without the clamp at zero.
taxAfterCreditsUnclamped(monthlyTaxBeforeCredits, creditValue) ==
    RSub(monthlyTaxBeforeCredits, creditValue)

\* Math.max(0, monthlyTaxBeforeCredits - creditValue)
taxAfterCredits(monthlyTaxBeforeCredits, creditValue) ==
    RMax(Zero, RSub(monthlyTaxBeforeCredits, creditValue))

\* The sum of the deductions with the manual deduction left out.
sumDeductionsNoManual(tax, ni, health, pension, studyFund, manual) ==
    RAdd(RAdd(RAdd(RAdd(tax, ni), health), pension), studyFund)

\* monthlyTaxAfterCredits + national_insurance + health_tax + pension_employee
\*   + study_fund_employee + manualDeductions
sumDeductions(tax, ni, health, pension, studyFund, manual) ==
    RAdd(RAdd(RAdd(RAdd(RAdd(tax, ni), health), pension), studyFund), manual)

calculateSalary(input) ==
    LET grossMonthly     == grossWithBonus(input)
        contributions    == calculateContributions(grossMonthly, input)
        manualDeductions == OrElse(input.manual_deductions_monthly, Zero)
        taxableMonthly   == taxableMonthlyOf(grossMonthly, contributions.pension_employee)
        taxableAnnual    == taxableAnnualOf(taxableMonthly, input)
        incomeTax        == calculateIncomeTax(taxableAnnual)
        monthlyTaxBeforeCredits == RDiv(incomeTax.tax, 12)
        autoCreditPoints  == calculateCreditPoints(input)
        totalCreditPoints == RAdd(autoCreditPoints, input.manual_credit_points)
        creditValue       == RMul(totalCreditPoints,
                                  TAX_SETTINGS_2025.credit_points.value_monthly)
        monthlyTaxAfterCredits == taxAfterCredits(monthlyTaxBeforeCredits, creditValue)
        niAndHealth == calculateNationalInsuranceAndHealth(grossMonthly, input.is_resident)
        totalDeductions == sumDeductions(monthlyTaxAfterCredits,
                                         niAndHealth.national_insurance,
                                         niAndHealth.health_tax,
                                         contributions.pension_employee,
                                         contributions.study_fund_employee,
                                         manualDeductions)
        net          == RSub(grossMonthly, totalDeductions)
        employerNI   == RMul(grossMonthly, Rat(361, 10000))
        employerCost == RAdd(RAdd(RAdd(grossMonthly, employerNI),
                                  contributions.pension_employer),
                             contributions.study_fund_employer)
    IN  [ gross |-> grossMonthly,
          taxable_income |-> taxableMonthly,
          income_tax_before_credits |-> monthlyTaxBeforeCredits,
          credit_points |->
            [ auto          |-> autoCreditPoints,
              manual        |-> input.manual_credit_points,
              total         |-> totalCreditPoints,
              value_monthly |-> TAX_SETTINGS_2025.credit_points.value_monthly,
              total_value   |-> creditValue ],
          income_tax_after_credits |-> monthlyTaxAfterCredits,
          national_insurance  |-> niAndHealth.national_insurance,
          health_tax          |-> niAndHealth.health_tax,
          pension_employee    |-> contributions.pension_employee,
          study_fund_employee |-> contributions.study_fund_employee,
          manual_deductions   |-> manualDeductions,
          total_deductions    |-> totalDeductions,
          net                 |-> net,
          employer_cost       |-> employerCost,
          breakdown |->
            [ tax_by_bracket   |-> incomeTax.breakdown,
              ni_breakdown     |-> niAndHealth.breakdown.ni_breakdown,
              health_breakdown |-> niAndHealth.breakdown.health_breakdown,
              contributions    |-> contributions ] ]

(***************************************************************************)
(* Inputs.                                                                 *)
(***************************************************************************)
\* Annual incomes within IncomeSpread of each bracket boundary (negative ones
\* below 0 included), IncomeSteps steps of 50,000 and some fractional incomes.
IncomeSpread == 2

IncomeSteps == 20

\* Gross monthly pay within GrossSpread of 0, the threshold and the cap, and
\* GrossSteps steps of 5,000.
GrossSpread == 1

GrossSteps == 13

\* The longest list of children of a calculateCreditPoints call, and of a
\* calculateSalary call.
MaxChildren == 2

MaxSalaryChildren == 1

\* The longest sequence of calculateSalary calls followed in SpecSeq.
MaxCalls == 3

BracketBoundaries == {0, 84120, 120720, 193800, 269280, 560280, 721560}

AnnualIncomes ==
    { Num(b + d) : b \in BracketBoundaries, d \in (-IncomeSpread)..IncomeSpread }
    \cup { Num(50000 * k) : k \in 0..IncomeSteps }
    \cup { Rat(2 * b + 1, 2) : b \in BracketBoundaries }

MonthlyGrosses ==
    { Num(b + d) : b \in {0, 7522, 50695}, d \in (-GrossSpread)..GrossSpread }
    \cup { Num(5000 * k) : k \in 0..GrossSteps }
    \cup { Rat(150451, 20), Num(-1000) }

\* All sequences over S of length at most n.
RECURSIVE SeqsUpTo(_, _)
SeqsUpTo(S, n) ==
    IF n = 0 THEN { <<>> }
    ELSE LET shorter == SeqsUpTo(S, n - 1)
         IN  shorter \cup { Append(q, x) : q \in shorter, x \in S }

ChildAges == { Num(5), Rat(11, 2), Num(12), Num(13), Num(17), Num(18) }

Children(ages, n) == SeqsUpTo({ [ age |-> a ] : a \in ages }, n)

CustomPensions ==
    { [ employee_rate |-> Rat(6, 100), employer_rate |-> Rat(65, 1000),
        base_salary_only |-> TRUE ],
      [ employee_rate |-> Rat(3, 2), employer_rate |-> Zero,
        base_salary_only |-> FALSE ],
      [ employee_rate |-> Num(1), employer_rate |-> Rat(1, 10),
        base_salary_only |-> FALSE ] }

CustomStudyFunds ==
    { [ employee_rate |-> Rat(5, 100), employer_rate |-> Rat(5, 100),
        base_salary_only |-> FALSE ],
      [ employee_rate |-> Rat(2, 100), employer_rate |-> Rat(4, 100),
        base_salary_only |-> TRUE ] }

\* A resident male of 30 earning 15,000 with nothing optional supplied.
BaseProfile ==
    [ gross_monthly             |-> Num(15000),
      is_resident               |-> TRUE,
      gender                    |-> "male",
      age                       |-> Num(30),
      children                  |-> <<>>,
      single_parent             |-> FALSE,
      new_immigrant             |-> FALSE,
      returning_resident        |-> FALSE,
      manual_credit_points      |-> Zero,
      months_worked_in_year     |-> Num(12),
      bonus_current_month       |-> undefined,
      use_standard_pension      |-> FALSE,
      custom_pension            |-> undefined,
      use_study_fund            |-> FALSE,
      custom_study_fund         |-> undefined,
      manual_deductions_monthly |-> undefined ]

\* The profiles calculateCreditPoints is called with.
CreditProfiles ==
    { [ BaseProfile EXCEPT !.is_resident = r, !.gender = g, !.children = c,
                           !.single_parent = sp, !.new_immigrant = ni,
                           !.returning_resident = rr ] :
        r \in BOOLEAN, g \in {"male", "female"},
        c \in Children(ChildAges, MaxChildren),
        sp \in BOOLEAN, ni \in BOOLEAN, rr \in BOOLEAN }

\* The profiles calculateContributions is called with.
ContributionProfiles ==
    { [ BaseProfile EXCEPT !.gross_monthly = g, !.bonus_current_month = b,
                           !.use_standard_pension = up, !.custom_pension = cp,
                           !.use_study_fund = us, !.custom_study_fund = cs ] :
        g \in { Zero, Num(10000), Num(12345) },
        b \in { undefined, Zero, Num(1000) },
        up \in BOOLEAN, cp \in { undefined } \cup CustomPensions,
        us \in BOOLEAN, cs \in { undefined } \cup CustomStudyFunds }

\* The profiles calculateSalary is called with.
SalaryProfiles ==
    { [ BaseProfile EXCEPT !.gross_monthly = g, !.bonus_current_month = b,
                           !.is_resident = rg[1], !.gender = rg[2],
                           !.children = c,
                           !.manual_credit_points = m,
                           !.months_worked_in_year = mw,
                           !.use_standard_pension = pn[1], !.custom_pension = pn[2],
                           !.use_study_fund = sf[1], !.custom_study_fund = sf[2],
                           !.manual_deductions_monthly = md ] :
        g \in { Zero, Num(5000), Num(15000), Num(60000) },
        b \in { undefined, Num(1000) },
        rg \in { <<TRUE, "male">>, <<TRUE, "female">>, <<FALSE, "male">> },
        c \in Children({ Num(4) }, MaxSalaryChildren),
        m \in { Num(-3), Zero, Num(3) },
        mw \in { Num(6), Num(12) },
        pn \in { <<FALSE, undefined>>, <<TRUE, undefined>> }
               \cup { <<cp[1], cp[2]>> :
                        cp \in { <<FALSE, [ employee_rate |-> Rat(6, 100),
                                            employer_rate |-> Rat(65, 1000),
                                            base_salary_only |-> TRUE ]>>,
                                 <<TRUE, [ employee_rate |-> Rat(3, 2),
                                           employer_rate |-> Zero,
                                           base_salary_only |-> FALSE ]>> } },
        sf \in { <<FALSE, undefined>>, <<TRUE, undefined>> }
               \cup { <<TRUE, cs>> :
                        cs \in { [ employee_rate |-> Rat(5, 100),
                                   employer_rate |-> Rat(5, 100),
                                   base_salary_only |-> FALSE ] } },
        md \in { undefined, Num(500) } }

\* The profiles of the call sequences of SpecSeq.
SeqProfiles ==
    { [ BaseProfile EXCEPT !.use_standard_pension = up, !.custom_pension = cp,
                           !.use_study_fund = us ] :
        up \in BOOLEAN,
        cp \in { undefined, [ employee_rate |-> Rat(6, 100),
                              employer_rate |-> Rat(65, 1000),
                              base_salary_only |-> TRUE ] },
        us \in BOOLEAN }

(***************************************************************************)
(* The state machine: a caller invokes one exported function at a time.    *)
(***************************************************************************)
Init ==
    /\ TAX_SETTINGS_2025 = InitialTaxSettings
    /\ STANDARD_CONTRIBUTIONS_2025 = InitialStandardContributions
    /\ pc = "idle"
    /\ fn = "none"
    /\ args = <<>>
    /\ ret = <<>>
    /\ history = <<>>

\* The call's effect on the caller's view: the arguments (as they are after the
\* call) and the returned value.  No function writes to its arguments.
Returned(name, arguments, value) ==
    /\ pc = "idle"
    /\ pc' = "returned"
    /\ fn' = name
    /\ args' = arguments
    /\ ret' = value

CallCalculateIncomeTax(grossAnnual) ==
    /\ Returned("calculateIncomeTax", <<grossAnnual>>, calculateIncomeTax(grossAnnual))
    /\ UNCHANGED <<TAX_SETTINGS_2025, STANDARD_CONTRIBUTIONS_2025, history>>

CallCalculateCreditPoints(input) ==
    /\ Returned("calculateCreditPoints", <<input>>, calculateCreditPoints(input))
    /\ UNCHANGED <<TAX_SETTINGS_2025, STANDARD_CONTRIBUTIONS_2025, history>>

CallCalculateNationalInsuranceAndHealth(grossMonthly, isResident) ==
    /\ Returned("calculateNationalInsuranceAndHealth", <<grossMonthly, isResident>>,
                calculateNationalInsuranceAndHealth(grossMonthly, isResident))
    /\ UNCHANGED <<TAX_SETTINGS_2025, STANDARD_CONTRIBUTIONS_2025, history>>

CallCalculateContributions(grossMonthly, input) ==
    /\ Returned("calculateContributions", <<grossMonthly, input>>,
                calculateContributions(grossMonthly, input))
    /\ UNCHANGED <<TAX_SETTINGS_2025, STANDARD_CONTRIBUTIONS_2025, history>>

\* A calculateSalary that writes a supplied custom pension pair into the shared
\* standard rates.
RunCalculateSalaryWritingShared(input) ==
    /\ Returned("calculateSalary", <<input>>, calculateSalary(input))
    /\ STANDARD_CONTRIBUTIONS_2025' =
         IF input.custom_pension # undefined
         THEN [ STANDARD_CONTRIBUTIONS_2025 EXCEPT !.pension = input.custom_pension ]
         ELSE STANDARD_CONTRIBUTIONS_2025
    /\ UNCHANGED TAX_SETTINGS_2025

\* calculateSalary run to completion: it reads the shared tables and its input
\* and writes neither.
RunCalculateSalary(input) ==
    /\ Returned("calculateSalary", <<input>>, calculateSalary(input))
    /\ UNCHANGED <<TAX_SETTINGS_2025, STANDARD_CONTRIBUTIONS_2025>>

CallCalculateSalary(input) ==
    /\ RunCalculateSalary(input)
    /\ UNCHANGED history

\* The caller takes the result and is ready for the next call.
Return ==
    /\ pc = "returned"
    /\ pc' = "idle"
    /\ fn' = "none"
    /\ args' = <<>>
    /\ ret' = <<>>
    /\ UNCHANGED <<TAX_SETTINGS_2025, STANDARD_CONTRIBUTIONS_2025, history>>

Next ==
    \/ \E grossAnnual \in AnnualIncomes : CallCalculateIncomeTax(grossAnnual)
    \/ \E input \in CreditProfiles : CallCalculateCreditPoints(input)
    \/ \E grossMonthly \in MonthlyGrosses, isResident \in BOOLEAN :
         CallCalculateNationalInsuranceAndHealth(grossMonthly, isResident)
    \/ \E input \in ContributionProfiles :
         CallCalculateContributions(grossWithBonus(input), input)
    \/ \E input \in SalaryProfiles : CallCalculateSalary(input)
    \/ Return

Spec == Init /\ [][Next]_vars

\* A sequence of at most MaxCalls calculateSalary calls, each recorded with the
\* profile passed, the profile as it is after the call, and the result.
SeqCallCalculateSalary(input) ==
    /\ Len(history) < MaxCalls
    /\ RunCalculateSalary(input)
    /\ history' = Append(history, [ input      |-> input,
                                    inputAfter |-> args'[1],
                                    result     |-> ret' ])

NextSeq ==
    \/ \E input \in SeqProfiles : SeqCallCalculateSalary(input)
    \/ Return

SpecSeq == Init /\ [][NextSeq]_vars

(***************************************************************************)
(* Properties.                                                             *)
(***************************************************************************)
InIncomeTax == pc = "returned" /\ fn = "calculateIncomeTax"

InCreditPoints == pc = "returned" /\ fn = "calculateCreditPoints"

InNationalInsurance == pc = "returned" /\ fn = "calculateNationalInsuranceAndHealth"

InContributions == pc = "returned" /\ fn = "calculateContributions"

InSalary == pc = "returned" /\ fn = "calculateSalary"

\* The sum of the amounts of the breakdown entries from index i on.
RECURSIVE SumAmounts(_, _)
SumAmounts(breakdown, i) ==
    IF i > Len(breakdown) THEN Zero
    ELSE RAdd(breakdown[i].amount, SumAmounts(breakdown, i + 1))

\* rate * max(0, min(income, upper) - lower) for bracket i, the upper bound of a
\* bracket without a max being unbounded.
ReferenceBracketTax(income, i) ==
    LET b == TAX_SETTINGS_2025.tax_brackets_annual[i]
        reached == IF b.max = undefined THEN income ELSE RMin(income, b.max)
    IN  RMul(b.rate, RMax(Zero, RSub(reached, b.min)))

\* The progressive reference: the sum of ReferenceBracketTax over brackets i..n.
RECURSIVE ProgressiveReference(_, _)
ProgressiveReference(income, i) ==
    IF i > Len(TAX_SETTINGS_2025.tax_brackets_annual) THEN Zero
    ELSE RAdd(ReferenceBracketTax(income, i), ProgressiveReference(income, i + 1))

\* What C1 asks of the result r of calculateIncomeTax(income).
IncomeTaxAsReference(income, r) ==
    /\ r.tax = SumAmounts(r.breakdown, 1)
    /\ \A k \in 1..Len(r.breakdown) :
         r.breakdown[k].amount =
           RMul(r.breakdown[k].taxable_amount, r.breakdown[k].bracket.rate)
    /\ r.tax = ProgressiveReference(income, 1)
    /\ (income = Num(84120) => r.tax = RMul(Num(84120), Rat(10, 100)))
    /\ (RGt(income, Num(721560)) =>
          r.tax = RAdd(ProgressiveReference(Num(721560), 1),
                       RMul(RSub(income, Num(721560)), Rat(50, 100))))

\* C1: for every non-negative annual income, the tax calculateIncomeTax returns
\* is the sum of its breakdown amounts, each amount is taxable span times rate,
\* and the total is the progressive reference (84120 is taxed 84120 * 0.10; above
\* 721560 only the excess is taxed at 0.50).  Checked on direct calls and on the
\* bracket tax calculateSalary takes for a non-negative taxable income.
C1_TaxIsProgressiveReference ==
    /\ (InIncomeTax /\ RLeq(Zero, args[1]) => IncomeTaxAsReference(args[1], ret))
    /\ (InSalary /\ RLeq(Zero, ret.taxable_income) =>
          /\ RMul(ret.income_tax_before_credits, Num(12)) =
               ProgressiveReference(RMul(ret.taxable_income, Num(12)), 1)
          /\ RMul(ret.income_tax_before_credits, Num(12)) =
               SumAmounts(ret.breakdown.tax_by_bracket, 1))

\* An income above the top bracket's lower bound was taxed in all seven brackets.
C1_Witness ==
    /\ InIncomeTax
    /\ args[1] = Num(1000000)
    /\ Len(ret.breakdown) = 7
    /\ ret.tax = Rat(3684224, 10)

\* C2: calculateIncomeTax is monotonically non-decreasing: the tax returned for
\* a non-negative income a is at most the tax for every income b >= a.
C2_TaxMonotone ==
    InIncomeTax /\ RLeq(Zero, args[1]) =>
      \A b \in AnnualIncomes :
        RLeq(args[1], b) => RLeq(ret.tax, calculateIncomeTax(b).tax)

\* The tax at a bracket boundary is below the tax one shekel above it.
C2_Witness ==
    /\ InIncomeTax
    /\ args[1] = Num(84120)
    /\ RLt(ret.tax, calculateIncomeTax(Num(84121)).tax)

\* C3: a zero or negative annual income gets tax 0 and an empty breakdown; so a
\* calculateSalary profile whose employee pension contribution is at least the
\* gross pay gets income_tax_before_credits 0 and an empty tax_by_bracket.
C3_NoTaxWithoutIncome ==
    /\ (InIncomeTax /\ RLeq(args[1], Zero) => ret.tax = Zero /\ ret.breakdown = <<>>)
    /\ (InSalary /\ RLeq(ret.gross, ret.pension_employee) =>
          /\ ret.income_tax_before_credits = Zero
          /\ ret.breakdown.tax_by_bracket = <<>>)

\* A profile with positive gross pay whose pension contribution exceeds it.
C3_Witness ==
    /\ InSalary
    /\ RGt(ret.gross, Zero)
    /\ RGt(ret.pension_employee, ret.gross)
    /\ ret.income_tax_before_credits = Zero

\* C4: for a non-negative gross and either residency, gross is capped at 50695,
\* low = min(capped, 7522), high = max(0, capped - 7522); national_insurance is
\* low * 0.0104 + high * 0.07 whatever the residency; health_tax is
\* low * 0.0323 + high * 0.0517 for a resident and 0, with both health breakdown
\* parts 0, for a non-resident; a gross above the cap gives the result of the cap.
C4_InsuranceTwoTierCapped ==
    InNationalInsurance /\ RLeq(Zero, args[1]) =>
      LET capped == RMin(args[1], Num(50695))
          low    == RMin(capped, Num(7522))
          high   == RMax(Zero, RSub(capped, Num(7522)))
      IN  /\ ret.national_insurance =
               RAdd(RMul(low, Rat(104, 10000)), RMul(high, Rat(7, 100)))
          /\ (args[2] =>
                ret.health_tax =
                  RAdd(RMul(low, Rat(323, 10000)), RMul(high, Rat(517, 10000))))
          /\ (~args[2] =>
                /\ ret.health_tax = Zero
                /\ ret.breakdown.health_breakdown.low_part = Zero
                /\ ret.breakdown.health_breakdown.high_part = Zero)
          /\ (RGt(args[1], Num(50695)) =>
                ret = calculateNationalInsuranceAndHealth(Num(50695), args[2]))

\* A non-resident above the cap: insured on the capped gross, no health tax.
C4_Witness ==
    /\ InNationalInsurance
    /\ args = <<Num(60000), FALSE>>
    /\ ret.health_tax = Zero
    /\ ret.national_insurance = Rat(31003388, 10000)

\* The injective maps of 1..n onto itself.
IndexPermutations(n) ==
    { f \in [1..n -> 1..n] : \A i, j \in 1..n : f[i] = f[j] => i = j }

\* The band coefficient the claim gives a child of the given age.
BandCoefficient(age) ==
    IF RLeq(age, Num(5)) THEN Rat(15, 10)
    ELSE IF RLeq(age, Num(12)) THEN Num(1)
    ELSE IF RLeq(age, Num(17)) THEN Num(1)
    ELSE Rat(5, 10)

\* The sum of the band coefficients of the children from index i on.
RECURSIVE SumBands(_, _)
SumBands(children, i) ==
    IF i > Len(children) THEN Zero
    ELSE RAdd(BandCoefficient(children[i].age), SumBands(children, i + 1))

\* The total the claim states for a profile.
ExpectedCreditPoints(input) ==
    RAdd(RAdd(RAdd(RAdd(
        IF input.is_resident
        THEN (IF input.gender = "male" THEN Rat(225, 100) ELSE Rat(275, 100))
        ELSE Zero,
        SumBands(input.children, 1)),
        IF input.single_parent THEN Rat(15, 10) ELSE Zero),
        IF input.new_immigrant THEN Num(1) ELSE Zero),
        IF input.returning_resident THEN Num(1) ELSE Zero)

\* C5: calculateCreditPoints returns the resident coefficient of the gender
\* (2.25 male, 2.75 female) only for a resident, plus one band coefficient per
\* child (age <= 5: 1.5, <= 12: 1.0, <= 17: 1.0, else 0.5), plus the
\* single_parent (1.5), new_immigrant (1.0) and returning_resident (1.0)
\* coefficients for each flag set; manual points are not included and every
\* ordering of the children gives the same result.  Checked on direct calls
\* and on the auto points calculateSalary reports.
C5_CreditPointsAdditive ==
    /\ (InCreditPoints =>
          /\ ret = ExpectedCreditPoints(args[1])
          /\ \A m \in { Num(-3), Num(3) } :
               calculateCreditPoints([ args[1] EXCEPT !.manual_credit_points = m ]) = ret
          /\ \A f \in IndexPermutations(Len(args[1].children)) :
               calculateCreditPoints(
                 [ args[1] EXCEPT !.children =
                     [ i \in 1..Len(args[1].children) |-> args[1].children[f[i]] ] ]) = ret)
    /\ (InSalary => ret.credit_points.auto = ExpectedCreditPoints(args[1]))

\* A non-resident single parent with children in two different bands, the
\* older one listed first.
C5_Witness ==
    /\ InCreditPoints
    /\ ~args[1].is_resident
    /\ args[1].single_parent /\ args[1].returning_resident /\ ~args[1].new_immigrant
    /\ Len(args[1].children) = 2
    /\ args[1].children[1].age = Num(18)
    /\ args[1].children[2].age = Num(5)
    /\ ret = Rat(45, 10)

\* The three-way rule: the custom pair if supplied, else the standard pair if
\* the flag is set, else none (undefined).
ExpectedPair(useStandard, custom, standard) ==
    IF custom # undefined THEN custom
    ELSE IF useStandard THEN standard
    ELSE undefined

\* The employee and employer amounts the claim states for one contribution.
ExpectedAmounts(pair, input) ==
    IF pair = undefined
    THEN <<Zero, Zero>>
    ELSE LET base == IF pair.base_salary_only
                     THEN input.gross_monthly
                     ELSE RAdd(input.gross_monthly,
                               IF input.bonus_current_month = undefined
                               THEN Zero
                               ELSE input.bonus_current_month)
         IN  <<RMul(base, pair.employee_rate), RMul(base, pair.employer_rate)>>

\* What C6 asks of the contributions c computed for a profile.
ContributionsAsRule(input, c) ==
    LET pension == ExpectedAmounts(ExpectedPair(input.use_standard_pension,
                                                input.custom_pension,
                                                InitialStandardContributions.pension),
                                   input)
        study   == ExpectedAmounts(ExpectedPair(input.use_study_fund,
                                                input.custom_study_fund,
                                                InitialStandardContributions.study_fund),
                                   input)
    IN  /\ c.pension_employee = pension[1]
        /\ c.pension_employer = pension[2]
        /\ c.study_fund_employee = study[1]
        /\ c.study_fund_employer = study[2]

\* C6: for each of pension and study fund the rate pair is the custom pair if
\* one is supplied (flag set or not), else the standard pair if the flag is
\* set, else the contribution is inactive and both amounts are 0; when active
\* the base is gross_monthly alone if the pair has base_salary_only, otherwise
\* gross_monthly + bonus, and each amount is base times its rate.  Checked on
\* direct calls and on the contributions calculateSalary reports.
C6_ContributionThreeWayRule ==
    /\ (InContributions => ContributionsAsRule(args[2], ret))
    /\ (InSalary => ContributionsAsRule(args[1], ret.breakdown.contributions))

\* Flag set and a base-salary-only custom pension pair supplied, with a bonus:
\* the custom pair wins and the bonus is left out of the pension base.
C6_Witness ==
    /\ InContributions
    /\ args[2].use_standard_pension
    /\ args[2].custom_pension # undefined
    /\ args[2].custom_pension.base_salary_only
    /\ args[2].gross_monthly = Num(10000)
    /\ args[2].bonus_current_month = Num(1000)
    /\ ret.pension_employee = Num(600)
    /\ ~args[2].use_study_fund /\ args[2].custom_study_fund = undefined
    /\ ret.study_fund_employee = Zero /\ ret.study_fund_employer = Zero

\* C7: income_tax_after_credits = max(0, income_tax_before_credits -
\* (auto credit points + manual_credit_points) * 242); it is never negative and
\* is 0 whenever the credit value is at least the pre-credit monthly tax.
C7_CreditsNeverRefund ==
    InSalary =>
      LET creditValue == RMul(RAdd(calculateCreditPoints(args[1]),
                                   args[1].manual_credit_points),
                              Num(242))
      IN  /\ ret.income_tax_after_credits =
               RMax(Zero, RSub(ret.income_tax_before_credits, creditValue))
          /\ RLeq(Zero, ret.income_tax_after_credits)
          /\ (RLeq(ret.income_tax_before_credits, creditValue) =>
                ret.income_tax_after_credits = Zero)

\* Credits worth more than a positive pre-credit tax: the tax is 0, not negative.
C7_Witness ==
    /\ InSalary
    /\ RGt(ret.income_tax_before_credits, Zero)
    /\ RGt(ret.credit_points.total_value, ret.income_tax_before_credits)
    /\ ret.income_tax_after_credits = Zero

\* C8: total_deductions = income_tax_after_credits + national_insurance +
\* health_tax + pension_employee + study_fund_employee + manual_deductions and
\* net = gross - total_deductions with gross = gross_monthly + bonus; net is not
\* clamped: it is negative exactly when total_deductions exceeds gross.
C8_TotalsAndNet ==
    InSalary =>
      /\ ret.gross = RAdd(args[1].gross_monthly,
                          IF args[1].bonus_current_month = undefined
                          THEN Zero
                          ELSE args[1].bonus_current_month)
      /\ ret.total_deductions =
           RAdd(ret.income_tax_after_credits,
             RAdd(ret.national_insurance,
               RAdd(ret.health_tax,
                 RAdd(ret.pension_employee,
                   RAdd(ret.study_fund_employee, ret.manual_deductions)))))
      /\ ret.manual_deductions =
           (IF args[1].manual_deductions_monthly = undefined
            THEN Zero
            ELSE args[1].manual_deductions_monthly)
      /\ ret.net = RSub(ret.gross, ret.total_deductions)
      /\ (RLt(ret.net, Zero) <=> RGt(ret.total_deductions, ret.gross))

\* Deductions, a manual one among them, above the gross pay: net is negative.
C8_Witness ==
    /\ InSalary
    /\ ret.manual_deductions = Num(500)
    /\ RGt(ret.gross, Zero)
    /\ RGt(ret.total_deductions, ret.gross)
    /\ RLt(ret.net, Zero)

\* The numeric fields of a result r other than net, taxable_income and the
\* credit-point summary's manual, total and total_value.
OtherNumbers(r) ==
    { r.gross, r.income_tax_before_credits, r.credit_points.auto,
      r.credit_points.value_monthly, r.income_tax_after_credits,
      r.national_insurance, r.health_tax, r.pension_employee,
      r.study_fund_employee, r.manual_deductions, r.total_deductions,
      r.employer_cost,
      r.breakdown.ni_breakdown.low_part, r.breakdown.ni_breakdown.high_part,
      r.breakdown.health_breakdown.low_part, r.breakdown.health_breakdown.high_part,
      r.breakdown.contributions.pension_employee,
      r.breakdown.contributions.pension_employer,
      r.breakdown.contributions.study_fund_employee,
      r.breakdown.contributions.study_fund_employer }
    \cup { r.breakdown.tax_by_bracket[k].amount : k \in 1..Len(r.breakdown.tax_by_bracket) }
    \cup { r.breakdown.tax_by_bracket[k].effective_rate :
             k \in 1..Len(r.breakdown.tax_by_bracket) }
    \cup { r.breakdown.tax_by_bracket[k].taxable_amount :
             k \in 1..Len(r.breakdown.tax_by_bracket) }

\* A profile of non-negative gross, bonus, rates and manual deduction.
WellFormed(input) ==
    /\ RLeq(Zero, input.gross_monthly)
    /\ (input.bonus_current_month # undefined => RLeq(Zero, input.bonus_current_month))
    /\ (input.manual_deductions_monthly # undefined =>
          RLeq(Zero, input.manual_deductions_monthly))
    /\ \A c \in { input.custom_pension, input.custom_study_fund } \ { undefined } :
         RLeq(Zero, c.employee_rate) /\ RLeq(Zero, c.employer_rate)

\* C9 as stated: for a well-formed profile every numeric field of the result,
\* the credit-point summary (manual, total, total_value) and every breakdown
\* entry included, is non-negative, net being the only exception.
C9_Original ==
    InSalary /\ WellFormed(args[1]) =>
      \A x \in OtherNumbers(ret)
               \cup { ret.taxable_income, ret.credit_points.manual,
                      ret.credit_points.total, ret.credit_points.total_value } :
        RLeq(Zero, x)

\* C9 (amended): for a well-formed profile every numeric field of the result
\* is non-negative except net, the credit-point summary's manual, total and
\* total_value (manual echoes the input, which may be negative) and
\* taxable_income (gross minus the employee pension contribution).
C9_NonNegativeFields ==
    InSalary /\ WellFormed(args[1]) =>
      \A x \in OtherNumbers(ret) : RLeq(Zero, x)

\* A well-formed profile with negative manual credit points: the summary's
\* manual, total and total_value are negative and the tax is positive.
C9_Witness ==
    /\ InSalary
    /\ WellFormed(args[1])
    /\ RLt(ret.credit_points.manual, Zero)
    /\ RLt(ret.credit_points.total, Zero)
    /\ RLt(ret.credit_points.total_value, Zero)
    /\ RGt(ret.income_tax_after_credits, ret.income_tax_before_credits)
    /\ Len(ret.breakdown.tax_by_bracket) > 1

\* C10: after any sequence of calculateSalary calls the shared rate table and
\* the standard contribution rates are as initialised, each input profile is
\* as it was passed, and any two calls with identical profiles, wherever they
\* occur in the sequence, returned identical results.
C10_PureAndRepeatable ==
    /\ TAX_SETTINGS_2025 = InitialTaxSettings
    /\ STANDARD_CONTRIBUTIONS_2025 = InitialStandardContributions
    /\ \A i \in 1..Len(history) : history[i].inputAfter = history[i].input
    /\ \A i, j \in 1..Len(history) :
         history[i].input = history[j].input => history[i].result = history[j].result

\* The same standard-pension profile called before and after a call with a
\* custom pension pair.
C10_Witness ==
    /\ Len(history) = 3
    /\ history[1].input = history[3].input
    /\ history[1].input.use_standard_pension
    /\ history[1].input.custom_pension = undefined
    /\ history[2].input.custom_pension # undefined
    /\ history[3].result.pension_employee = Num(1050)

\* The standard pair applied to a profile's contribution base.
StandardAmounts(pair, input) ==
    LET base == IF pair.base_salary_only
                THEN input.gross_monthly
                ELSE RAdd(input.gross_monthly,
                          IF input.bonus_current_month = undefined
                          THEN Zero
                          ELSE input.bonus_current_month)
    IN  <<RMul(base, pair.employee_rate), RMul(base, pair.employer_rate)>>

\* An absent bonus gives the result of bonus 0 and an absent manual deduction
\* the result of manual deduction 0.
AbsentNumbersDefaultToZero ==
    /\ (args[1].bonus_current_month = undefined =>
          ret = calculateSalary([ args[1] EXCEPT !.bonus_current_month = Zero ]))
    /\ (args[1].manual_deductions_monthly = undefined =>
          ret = calculateSalary([ args[1] EXCEPT !.manual_deductions_monthly = Zero ]))

\* C11 as stated: calculateSalary treats missing optional fields as defaults:
\* an absent bonus as bonus 0, an absent manual deduction as 0, and with
\* custom_pension / custom_study_fund absent the standard rate pair is used for
\* that contribution.
C11_Original ==
    InSalary =>
      /\ AbsentNumbersDefaultToZero
      /\ (args[1].custom_pension = undefined =>
            <<ret.pension_employee, ret.breakdown.contributions.pension_employer>> =
              StandardAmounts(InitialStandardContributions.pension, args[1]))
      /\ (args[1].custom_study_fund = undefined =>
            <<ret.study_fund_employee, ret.breakdown.contributions.study_fund_employer>> =
              StandardAmounts(InitialStandardContributions.study_fund, args[1]))

\* C11 (amended): calculateSalary treats missing optional fields as defaults:
\* an absent bonus as bonus 0, an absent manual deduction as 0; with
\* custom_pension / custom_study_fund absent the standard rate pair is used for
\* that contribution when its use flag is set (the result is that of the
\* standard pair passed as the custom pair), and the contribution is inactive,
\* both amounts 0, when the flag is not set.
C11_OptionalFieldsDefault ==
    InSalary =>
      /\ AbsentNumbersDefaultToZero
      /\ (args[1].custom_pension = undefined =>
            IF args[1].use_standard_pension
            THEN ret = calculateSalary(
                         [ args[1] EXCEPT !.custom_pension =
                             InitialStandardContributions.pension ])
            ELSE /\ ret.pension_employee = Zero
                 /\ ret.breakdown.contributions.pension_employer = Zero)
      /\ (args[1].custom_study_fund = undefined =>
            IF args[1].use_study_fund
            THEN ret = calculateSalary(
                         [ args[1] EXCEPT !.custom_study_fund =
                             InitialStandardContributions.study_fund ])
            ELSE /\ ret.study_fund_employee = Zero
                 /\ ret.breakdown.contributions.study_fund_employer = Zero)

\* Every optional field absent and both use flags set, on a positive gross:
\* the standard pension and study-fund amounts are withheld.
C11_Witness ==
    /\ InSalary
    /\ args[1].bonus_current_month = undefined
    /\ args[1].manual_deductions_monthly = undefined
    /\ args[1].custom_pension = undefined /\ args[1].use_standard_pension
    /\ args[1].custom_study_fund = undefined /\ args[1].use_study_fund
    /\ args[1].gross_monthly = Num(15000)
    /\ ret.gross = Num(15000)
    /\ ret.manual_deductions = Zero
    /\ ret.pension_employee = Num(1050)
    /\ ret.study_fund_employee = Num(375)

\* The values of months_worked_in_year compared.
MonthsWorked == { Num(0), Num(1), Num(6), Num(12) }

\* C12: taxable monthly income is gross_monthly + bonus - pension_employee, it
\* is annualized by 12 and the monthly tax is the annual tax / 12, whatever
\* months_worked_in_year is: two profiles that differ only in
\* months_worked_in_year give identical results.
C12_MonthsWorkedInert ==
    InSalary =>
      /\ ret.taxable_income =
           RSub(RAdd(args[1].gross_monthly,
                     IF args[1].bonus_current_month = undefined
                     THEN Zero
                     ELSE args[1].bonus_current_month),
                ret.pension_employee)
      /\ RMul(ret.income_tax_before_credits, Num(12)) =
           calculateIncomeTax(RMul(ret.taxable_income, Num(12))).tax
      /\ \A m \in MonthsWorked :
           calculateSalary([ args[1] EXCEPT !.months_worked_in_year = m ]) = ret

\* A taxed profile with 6 months worked: its tax is that of 12 times the
\* monthly taxable income (15000 - 1050 a month, 167400 a year).
C12_Witness ==
    /\ InSalary
    /\ args[1].months_worked_in_year = Num(6)
    /\ ret.taxable_income = Num(13950)
    /\ RMul(ret.income_tax_before_credits, Num(12)) = Num(22872)

\* The sum of the taxable spans of the breakdown entries from index i on.
RECURSIVE SumSpans(_, _)
SumSpans(breakdown, i) ==
    IF i > Len(breakdown) THEN Zero
    ELSE RAdd(breakdown[i].taxable_amount, SumSpans(breakdown, i + 1))

\* What C13 asks of the breakdown of the tax on a non-negative income.
BreakdownIsPrefix(income, breakdown) ==
    LET brackets == TAX_SETTINGS_2025.tax_brackets_annual
    IN  /\ Len(breakdown) <= Len(brackets)
        /\ \A k \in 1..Len(breakdown) :
             /\ breakdown[k].bracket = brackets[k]
             /\ RGt(breakdown[k].taxable_amount, Zero)
             /\ RLeq(Zero, breakdown[k].amount)
             /\ (k < Len(breakdown) =>
                   breakdown[k].taxable_amount = RSub(brackets[k].max, brackets[k].min))
        /\ SumSpans(breakdown, 1) = income

\* C13: for a non-negative annual income the breakdown lists the brackets in
\* ascending order with none skipped (a prefix of the rate table), every entry
\* has a strictly positive span and a non-negative amount, every entry but
\* possibly the last covers its bracket's full width, and the spans sum to the
\* income.  Checked on direct calls and on the breakdown calculateSalary
\* reports for a non-negative taxable income.
C13_BreakdownIsBracketPrefix ==
    /\ (InIncomeTax /\ RLeq(Zero, args[1]) => BreakdownIsPrefix(args[1], ret.breakdown))
    /\ (InSalary /\ RLeq(Zero, ret.taxable_income) =>
          BreakdownIsPrefix(RMul(ret.taxable_income, Num(12)),
                            ret.breakdown.tax_by_bracket))

\* An income inside the fourth bracket: three full brackets and a partial one.
C13_Witness ==
    /\ InIncomeTax
    /\ args[1] = Num(200000)
    /\ Len(ret.breakdown) = 4
    /\ ret.breakdown[3].taxable_amount = Num(73080)
    /\ ret.breakdown[4].taxable_amount = Num(6200)

\* C14: for every grossMonthly, zero and negative values included, and either
\* residency, the totals agree with the breakdown: national_insurance =
\* ni_breakdown.low_part + ni_breakdown.high_part and health_tax =
\* health_breakdown.low_part + health_breakdown.high_part.
C14_TotalsAgreeWithBreakdown ==
    InNationalInsurance =>
      /\ ret.national_insurance =
           RAdd(ret.breakdown.ni_breakdown.low_part,
                ret.breakdown.ni_breakdown.high_part)
      /\ ret.health_tax =
           RAdd(ret.breakdown.health_breakdown.low_part,
                ret.breakdown.health_breakdown.high_part)

\* The same agreement for the non-negative gross pays alone.
C14_AgreeForNonNegativeGross ==
    InNationalInsurance /\ RLeq(Zero, args[1]) =>
      /\ ret.national_insurance =
           RAdd(ret.breakdown.ni_breakdown.low_part,
                ret.breakdown.ni_breakdown.high_part)
      /\ ret.health_tax =
           RAdd(ret.breakdown.health_breakdown.low_part,
                ret.breakdown.health_breakdown.high_part)

====
